---- MODULE Spec2Model ----
(***************************************************************************)
(* A model of the Keithley 2600 VISA driver (keithley2600_VISADriver.py)   *)
(* and of the plugins that drive it.  A Python str is modelled as a        *)
(* sequence of one-character strings, a decimal number m * 10^e as the     *)
(* pair <<m, e>>.                                                          *)
(***************************************************************************)
EXTENDS Integers, Sequences, FiniteSets, TLC

\* ------------------------------------------------------------------ bounds
MaxRes == 3        \* longest list of addresses the resource manager returns
MaxPoints == 4     \* largest npoints of a sweep (the smallest is 3)
MaxCalls == 2      \* operations one caller starts in a run
MaxTimeouts == 1   \* reads that time out in a run
MaxHooks == 4      \* hooks the framework calls on one actuator plugin in a run

\* -------------------------------------------------------------- arithmetic
Abs(x) == IF x < 0 THEN -x ELSE x

Min(S) == CHOOSE x \in S : \A y \in S : x <= y

RECURSIVE Pow10(_)
Pow10(n) == IF n <= 0 THEN 1 ELSE 10 * Pow10(n - 1)

RECURSIVE NumDigits(_)
NumDigits(a) == IF a < 10 THEN 1 ELSE 1 + NumDigits(a \div 10)

\* The canonical pair of a decimal number: no trailing zero in the mantissa.
RECURSIVE Norm(_)
Norm(d) ==
    IF d[1] = 0 THEN <<0, 0>>
    ELSE IF d[1] % 10 = 0 THEN Norm(<<d[1] \div 10, d[2] + 1>>)
    ELSE d

\* ------------------------------------------------------------------- text
Digits == {"0", "1", "2", "3", "4", "5", "6", "7", "8", "9"}

DigitChar(k) ==
    CASE k = 0 -> "0" [] k = 1 -> "1" [] k = 2 -> "2" [] k = 3 -> "3"
      [] k = 4 -> "4" [] k = 5 -> "5" [] k = 6 -> "6" [] k = 7 -> "7"
      [] k = 8 -> "8" [] OTHER -> "9"

DigitVal(c) ==
    CASE c = "0" -> 0 [] c = "1" -> 1 [] c = "2" -> 2 [] c = "3" -> 3
      [] c = "4" -> 4 [] c = "5" -> 5 [] c = "6" -> 6 [] c = "7" -> 7
      [] c = "8" -> 8 [] OTHER -> 9

IsDigit(c) == c \in Digits

RECURSIVE DigitsVal(_)
DigitsVal(s) ==
    IF s = <<>> THEN 0
    ELSE 10 * DigitsVal(SubSeq(s, 1, Len(s) - 1)) + DigitVal(s[Len(s)])

\* str(n) of a Python int.
RECURSIVE IntToStr(_)
IntToStr(n) ==
    IF n < 0 THEN <<"-">> \o IntToStr(-n)
    ELSE IF n < 10 THEN <<DigitChar(n)>>
    ELSE IntToStr(n \div 10) \o <<DigitChar(n % 10)>>

LowerChar(c) == CASE c = "A" -> "a" [] c = "B" -> "b" [] OTHER -> c

UpperChar(c) ==
    CASE c = "a" -> "A" [] c = "b" -> "B" [] c = "s" -> "S"
      [] c = "m" -> "M" [] c = "u" -> "U" [] OTHER -> c

Lower(s) == [i \in 1..Len(s) |-> LowerChar(s[i])]

Upper(s) == [i \in 1..Len(s) |-> UpperChar(s[i])]

StartsWith(s, p) == Len(s) >= Len(p) /\ SubSeq(s, 1, Len(p)) = p

\* str.strip(): float() ignores blanks around its argument.
RECURSIVE Strip(_)
Strip(s) ==
    IF s = <<>> THEN s
    ELSE IF s[1] = " " THEN Strip(Tail(s))
    ELSE IF s[Len(s)] = " " THEN Strip(SubSeq(s, 1, Len(s) - 1))
    ELSE s

\* f"{x:.6e}": one leading digit, six decimals, the exponent.  The text
\* d.dddddde+XX is the record of its sign, its seven digits and its exponent.
Fmt6e(d) ==
    LET m == d[1]
        a == Abs(m)
        nd == NumDigits(a)
        cut == Pow10(nd - 7)
        q == a \div cut
        r == a % cut
        up == 2 * r > cut \/ (2 * r = cut /\ q % 2 = 1)
        q2 == IF up THEN q + 1 ELSE q
    IN  IF m = 0 THEN [neg |-> FALSE, digits |-> 0, exp |-> 0]
        ELSE IF nd <= 7
             THEN [neg |-> m < 0, digits |-> a * Pow10(7 - nd), exp |-> d[2] + nd - 1]
        ELSE IF q2 = Pow10(7)
             THEN [neg |-> m < 0, digits |-> Pow10(6), exp |-> d[2] + nd]
        ELSE [neg |-> m < 0, digits |-> q2, exp |-> d[2] + nd - 1]

\* float(text): blanks stripped, an optional sign, digits with at most one
\* point, an optional exponent.  [ok |-> FALSE] is Python's ValueError.
ParseFloat(text) ==
    LET t == Strip(text)
        epos == {i \in 1..Len(t) : t[i] \in {"e", "E"}}
        ep == IF epos = {} THEN Len(t) + 1 ELSE Min(epos)
        mant == SubSeq(t, 1, ep - 1)
        expo == SubSeq(t, ep + 1, Len(t))
        signed(s) == s # <<>> /\ s[1] \in {"+", "-"}
        body(s) == IF signed(s) THEN Tail(s) ELSE s
        neg(s) == s # <<>> /\ s[1] = "-"
        u == body(mant)
        dots == {i \in 1..Len(u) : u[i] = "."}
        ds == SelectSeq(u, IsDigit)
        frac == IF dots = {} THEN 0 ELSE Len(u) - Min(dots)
        x == body(expo)
        mantOk == /\ Cardinality(dots) <= 1
                  /\ Len(ds) >= 1
                  /\ Len(ds) + Cardinality(dots) = Len(u)
        expOk == \/ epos = {}
                 \/ /\ Cardinality(epos) = 1
                    /\ x # <<>>
                    /\ \A i \in 1..Len(x) : IsDigit(x[i])
        ev == IF epos = {} THEN 0
              ELSE IF neg(expo) THEN -DigitsVal(x) ELSE DigitsVal(x)
        mv == IF neg(mant) THEN -DigitsVal(ds) ELSE DigitsVal(ds)
    IN  IF mantOk /\ expOk
        THEN [ok |-> TRUE, val |-> Norm(<<mv, ev - frac>>)]
        ELSE [ok |-> FALSE, val |-> <<0, 0>>]

\* int(x) of a float: the fraction is dropped, towards zero.
TruncInt(d) ==
    IF d[2] >= 0 THEN d[1] * Pow10(d[2])
    ELSE IF d[1] < 0 THEN -(Abs(d[1]) \div Pow10(-d[2]))
    ELSE d[1] \div Pow10(-d[2])

\* table.split(", ")
RECURSIVE Split(_)
Split(s) ==
    LET hits == {i \in 1..(Len(s) - 1) : s[i] = "," /\ s[i + 1] = " "}
    IN  IF hits = {} THEN <<s>>
        ELSE <<SubSeq(s, 1, Min(hits) - 1)>>
                 \o Split(SubSeq(s, Min(hits) + 2, Len(s)))

table_to_np(table) ==
    LET split == Split(table)
        floats == [i \in 1..Len(split) |-> ParseFloat(split[i])]
    IN  IF \A i \in 1..Len(split) : floats[i].ok
        THEN [ok |-> TRUE, array |-> [i \in 1..Len(split) |-> floats[i].val]]
        ELSE [ok |-> FALSE, array |-> <<>>]

\* ------------------------------------------------------ resource discovery
USB0 == <<"U", "S", "B", "0">>

Addresses ==
    { <<"U", "S", "B", "0", ":", "1">>,
      <<"U", "S", "B", "0", ":", "2">>,
      <<"U", "S", "B", "1", ":", "1">>,
      <<"G", "P", "I", "B", "0">>,
      <<"A", "S", "R", "L", "1">> }

\* list.remove(val): the first element equal to val is dropped.
ListRemove(l, val) ==
    LET i == Min({k \in 1..Len(l) : l[k] = val})
    IN  SubSeq(l, 1, i - 1) \o SubSeq(l, i + 1, Len(l))

\* A slip of get_VISA_resources: every USB0 address is moved to the front.
get_VISA_resources_all(listed) ==
    SelectSeq(listed, LAMBDA a : StartsWith(a, USB0))
        \o SelectSeq(listed, LAMBDA a : ~StartsWith(a, USB0))

get_VISA_resources(listed) ==
    LET hits == {i \in 1..Len(listed) : StartsWith(listed[i], USB0)}
    IN  IF hits = {} THEN listed
        ELSE <<listed[Min(hits)]>> \o ListRemove(listed, listed[Min(hits)])

\* ------------------------------------------------------------ the program
Callers == {"master", "slave"}     \* the plugins that hold the Controller

ChannelNames == {<<"A">>, <<"B">>}

\* Keithley2600Channel.__init__: self.smu = f"smu{channel.lower()}"
SmuOf(channel) == <<"s", "m", "u">> \o Lower(channel)

SmuNames == {SmuOf(ch) : ch \in ChannelNames}

\* The numbers the settings hold in the model.
StartVs == {<<0, 0>>, <<12345678, -7>>}
StopVs == {<<1, 0>>}
STimes == {<<1, -3>>}
NPoints == (3..MaxPoints) \cup {101}
Setpoints == {<<0, 0>>, <<-25, -1>>}
Limits == {<<1, -1>>}

\* The lines the instrument may send: status codes, scalar readings and
\* buffer dumps of one to MaxPoints + 1 values, well formed or not.
RECURSIVE Ones(_)
Ones(n) == IF n <= 1 THEN <<"1">> ELSE <<"1", ",", " ">> \o Ones(n - 1)

Lines ==
    { <<"0">>, <<"2">>, <<"3">>, <<"2", ".", "5">>, <<"x">>,
      <<"2", ".", "0", "0", "0", "0", "0", "e", "+", "0", "0">>,
      <<"1", " ", "2">>, <<"1", ",", "1">>, <<"1", ",", " ", "x">> }
        \cup {Ones(n) : n \in 1..(MaxPoints + 1)}

\* The same, cut down to an accepted status, a bad line, a pair of
\* readings and a dump of three values.
FewLines == {<<"2">>, <<"x">>, <<"1", " ", "2">>, Ones(3)}

\* ------------------------------------------------------------- commands
\* The TSP command lines, by their parts.
Assign(obj, attr, n) == [f |-> "assign", obj |-> obj, attr |-> attr, int |-> n]

AssignNum(obj, attr, text) ==
    [f |-> "assign", obj |-> obj, attr |-> attr, num |-> text]

AssignSym(obj, attr, sym) ==
    [f |-> "assign", obj |-> obj, attr |-> attr, sym |-> sym]

PrintCmd(obj, attr) == [f |-> "print", obj |-> obj, attr |-> attr]

PrintBuffer(first, last, obj, buf) ==
    [f |-> "printbuffer", first |-> first, last |-> last, obj |-> obj, buf |-> buf]

SweepCmd(obj, startv, stopv, stime, npoints) ==
    [f |-> "SweepVLinMeasureI", obj |-> obj, startv |-> startv,
     stopv |-> stopv, stime |-> stime, npoints |-> npoints]

IsQuery(cmd) == cmd.f \in {"print", "printbuffer"}

\* The steps of a method: a write of one command, a read of one line with
\* its conversion, the emission of a data record, the close of the handle.
Write(cmd) == [k |-> "write", cmd |-> cmd]

Read(conv) == [k |-> "read", conv |-> conv]

Emit == [k |-> "emit"]

CloseHandle == [k |-> "close"]

DropHandle == [k |-> "drop"]

\* ret.split(): the pieces between runs of blanks.
RECURSIVE SplitWs(_)
SplitWs(s) ==
    LET t == Strip(s)
        blanks == {i \in 1..Len(t) : t[i] = " "}
    IN  IF t = <<>> THEN <<>>
        ELSE IF blanks = {} THEN <<t>>
        ELSE <<SubSeq(t, 1, Min(blanks) - 1)>>
                 \o SplitWs(SubSeq(t, Min(blanks) + 1, Len(t)))

\* ------------------------------------------------- Keithley2600Channel
\* Each method is the list of its steps on the transport, in program order.
Ilimit_get(smu) == <<Write(PrintCmd(smu, "source.limiti")), Read("float")>>

Ilimit_set(smu, ilimit) ==
    <<Write(AssignNum(smu, "source.limiti", Fmt6e(ilimit)))>>

Vlimit_get(smu) == <<Write(PrintCmd(smu, "source.limitv")), Read("float")>>

Vlimit_set(smu, vlimit) ==
    <<Write(AssignNum(smu, "source.limitv", Fmt6e(vlimit)))>>

autorange(smu) ==
    << Write(AssignSym(smu, "measure.autorangei", <<smu, "AUTORANGE_ON">>)),
       Write(AssignSym(smu, "measure.autorangev", <<smu, "AUTORANGE_ON">>)) >>

measureI(smu) == <<Write(PrintCmd(smu, "measure.i()")), Read("float")>>

measureV(smu) == <<Write(PrintCmd(smu, "measure.v()")), Read("float")>>

measureIV(smu) == <<Write(PrintCmd(smu, "measure.iv()")), Read("iv")>>

off(smu, highz) ==
    <<Write(Assign(smu, "source.output", IF highz THEN 2 ELSE 0))>>

\* A slip of sourceI: the level is written before the output is enabled.
sourceI_level_first(smu, isetpoint) ==
    << Write(Assign(smu, "source.func", 0)),
       Write(AssignNum(smu, "source.leveli", Fmt6e(isetpoint))),
       Write(Assign(smu, "source.output", 1)) >>

sourceI(smu, isetpoint) ==
    << Write(Assign(smu, "source.func", 0)),
       Write(Assign(smu, "source.output", 1)),
       Write(AssignNum(smu, "source.leveli", Fmt6e(isetpoint))) >>

\* A slip of sourceV: the source function is not selected.
sourceV_no_func(smu, vsetpoint) ==
    << Write(Assign(smu, "source.output", 1)),
       Write(AssignNum(smu, "source.levelv", Fmt6e(vsetpoint))) >>

sourceV(smu, vsetpoint) ==
    << Write(Assign(smu, "source.func", 1)),
       Write(Assign(smu, "source.output", 1)),
       Write(AssignNum(smu, "source.levelv", Fmt6e(vsetpoint))) >>

\* A slip of sweepV_measureI: the readings are dumped before the source
\* values, from index 0.
sweepV_measureI_swapped(smu, startv, stopv, stime, npoints) ==
    << Write(SweepCmd(smu, Fmt6e(startv), Fmt6e(stopv), Fmt6e(stime),
                      IntToStr(npoints))),
       Write(PrintCmd(Upper(smu), "status.measurement.buffer_available")),
       Read("status"),
       Write(PrintBuffer(0, IntToStr(npoints), smu, "nvbuffer1.readings")),
       Read("table_x"),
       Write(PrintBuffer(0, IntToStr(npoints), smu, "nvbuffer1.sourcevalues")),
       Read("table_y") >>

sweepV_measureI(smu, startv, stopv, stime, npoints) ==
    << Write(SweepCmd(smu, Fmt6e(startv), Fmt6e(stopv), Fmt6e(stime),
                      IntToStr(npoints))),
       Write(PrintCmd(Upper(smu), "status.measurement.buffer_available")),
       Read("status"),
       Write(PrintBuffer(1, IntToStr(npoints), smu, "nvbuffer1.sourcevalues")),
       Read("table_x"),
       Write(PrintBuffer(1, IntToStr(npoints), smu, "nvbuffer1.readings")),
       Read("table_y") >>

\* if not int(float(ret)) == 2: raise ValueError
StatusAccepted(ret) ==
    LET f == ParseFloat(ret) IN f.ok /\ TruncInt(f.val) = 2

\* A slip of close: the closed handle is kept.
driver_close_keep == <<CloseHandle>>

\* Keithley2600VISADriver.close: self._instr.close(), self._instr = None
driver_close == <<CloseHandle, DropHandle>>

\* A slip of grab_data: the idle polarization is applied before the record
\* is emitted.
grab_data_polarize_first(smu, st) ==
    Ilimit_set(smu, st.ilimit)
        \o sweepV_measureI(smu, st.startv, st.stopv, st.stime, st.npoints)
        \o (IF st.idle_pol_on THEN sourceV(smu, st.idle_pol_v) ELSE <<>>)
        \o <<Emit>>

\* A slip of grab_data: the record is emitted before the sweep has run.
grab_data_emit_first(smu, st) ==
    Ilimit_set(smu, st.ilimit)
        \o <<Emit>>
        \o sweepV_measureI(smu, st.startv, st.stopv, st.stime, st.npoints)
        \o (IF st.idle_pol_on THEN sourceV(smu, st.idle_pol_v) ELSE <<>>)

\* DAQ_1DViewer_Keithley2600.grab_data, with the settings it retrieves.
grab_data(smu, st) ==
    Ilimit_set(smu, st.ilimit)
        \o sweepV_measureI(smu, st.startv, st.stopv, st.stime, st.npoints)
        \o <<Emit>>
        \o (IF st.idle_pol_on THEN sourceV(smu, st.idle_pol_v) ELSE <<>>)

\* ------------------------------------------------ DAQ_Move_Keithley2600
\* The values the "type" setting may hold: the two of the list, and one
\* outside it.
SourceTypes == {"Voltage", "Current", "Power"}

\* The settings commit_settings is called for.
SettingNames == {"type", "autorange"}

\* The steps of a hook besides those on the transport: the Controller is
\* created or received, the setting is changed, the unit and the functions
\* are selected, an exception is raised, the value read is stored, the hook
\* returns.
Open == [k |-> "open"]

Attach == [k |-> "attach"]

SetType(type) == [k |-> "settype", type |-> type]

Select(unit, meas, move) ==
    [k |-> "select", unit |-> unit, meas |-> meas, move |-> move]

RaiseStmt(err) == [k |-> "raise", err |-> err]

Store == [k |-> "store"]

Return == [k |-> "return"]

\* a + b of two decimal numbers.
Add(a, b) ==
    LET e == Min({a[2], b[2]})
    IN  Norm(<<a[1] * Pow10(a[2] - e) + b[1] * Pow10(b[2] - e), e>>)

\* A slip of _set_source_type: an unknown type falls back to the voltage
\* source.
set_source_type_default(smu, type) ==
    IF type = "Current"
    THEN <<Select("A", "measureI", "sourceI")>> \o measureI(smu) \o <<Store>>
    ELSE <<Select("V", "measureV", "sourceV")>> \o measureV(smu) \o <<Store>>

\* DAQ_Move_Keithley2600._set_source_type, with the "type" setting it reads.
set_source_type(smu, type) ==
    IF type = "Voltage"
    THEN <<Select("V", "measureV", "sourceV")>> \o measureV(smu) \o <<Store>>
    ELSE IF type = "Current"
    THEN <<Select("A", "measureI", "sourceI")>> \o measureI(smu) \o <<Store>>
    ELSE <<RaiseStmt("ValueError")>>

\* DAQ_Move_Keithley2600.ini_stage: the Controller, the Channel (with its
\* autorange), the source type.
ini_stage(smu, master, autorng, type) ==
    <<IF master THEN Open ELSE Attach>>
        \o (IF autorng THEN autorange(smu) ELSE <<>>)
        \o set_source_type(smu, type)
        \o <<Return>>

\* DAQ_Move_Keithley2600.commit_settings, after the framework has changed
\* the setting `name`.
commit_settings(smu, name, type) ==
    IF name = "type"
    THEN <<SetType(type)>> \o set_source_type(smu, type) \o <<Return>>
    ELSE <<Return>>

\* self._meas_function(), self._move_function(value): the function selected
\* last, None when none was.
meas_function(fn, smu) ==
    IF fn = "measureV" THEN measureV(smu)
    ELSE IF fn = "measureI" THEN measureI(smu)
    ELSE <<RaiseStmt("TypeError")>>

move_function(fn, smu, value) ==
    IF fn = "sourceV" THEN sourceV(smu, value)
    ELSE IF fn = "sourceI" THEN sourceI(smu, value)
    ELSE <<RaiseStmt("TypeError")>>

get_actuator_value(smu, fn) == meas_function(fn, smu) \o <<Return>>

\* A slip of move_abs: the voltage source is used whatever was selected.
move_abs_voltage(smu, fn, value) == sourceV(smu, value) \o <<Return>>

move_abs(smu, fn, value) == move_function(fn, smu, value) \o <<Return>>

\* move_rel: the target is the current position plus the value.
move_rel(smu, fn, position, value) ==
    move_function(fn, smu, Add(position, value)) \o <<Return>>

\* A slip of stop_motion: the output is left in high impedance.
stop_motion_highz(smu) == off(smu, TRUE) \o <<Return>>

\* DAQ_Move_Keithley2600.stop_motion: self.channel.off()
stop_motion(smu) == off(smu, FALSE) \o <<Return>>

\* close of a plugin: if self.is_master: self.controller.close()
plugin_close(master) == (IF master THEN driver_close ELSE <<>>) \o <<Return>>

\* The steps of a call, from the record of the method and its arguments.
Program(cr) ==
    CASE cr.op = "sweepV_measureI" ->
             sweepV_measureI(cr.smu, cr.startv, cr.stopv, cr.stime, cr.npoints)
      [] cr.op = "sourceV" -> sourceV(cr.smu, cr.setpoint)
      [] cr.op = "sourceI" -> sourceI(cr.smu, cr.setpoint)
      [] cr.op = "off" -> off(cr.smu, cr.highz)
      [] cr.op = "measureI" -> measureI(cr.smu)
      [] cr.op = "measureV" -> measureV(cr.smu)
      [] cr.op = "measureIV" -> measureIV(cr.smu)
      [] cr.op = "Ilimit" -> Ilimit_get(cr.smu)
      [] cr.op = "Vlimit" -> Vlimit_get(cr.smu)
      [] cr.op = "close" -> driver_close
      [] cr.op = "grab_data" -> grab_data(cr.smu, cr.settings)
      [] cr.op = "ini_stage" -> ini_stage(cr.smu, cr.master, cr.autorange, cr.type)
      [] cr.op = "commit_settings" -> commit_settings(cr.smu, cr.name, cr.type)
      [] cr.op = "get_actuator_value" -> get_actuator_value(cr.smu, cr.fn)
      [] cr.op = "move_abs" -> move_abs(cr.smu, cr.fn, cr.value)
      [] cr.op = "move_rel" -> move_rel(cr.smu, cr.fn, cr.position, cr.value)
      [] cr.op = "stop_motion" -> stop_motion(cr.smu)
      [] cr.op = "plugin_close" -> plugin_close(cr.master)
      [] OTHER -> <<>>

\* The methods that return what they read.
ValueOps ==
    {"sweepV_measureI", "measureI", "measureV", "measureIV", "Ilimit", "Vlimit",
     "get_actuator_value"}

\* What a read makes of the line it got: the locals after it, or the
\* ValueError of a conversion or of the status check.
Convert(conv, line, l) ==
    LET f == ParseFloat(line)
        t == SplitWs(line)
        i == ParseFloat(t[1])
        v == ParseFloat(t[2])
        a == table_to_np(line)
    IN  CASE conv = "float" ->
                 [ok |-> f.ok, loc |-> [l EXCEPT !.x = <<f.val>>]]
          [] conv = "iv" ->
                 IF Len(t) = 2 /\ i.ok /\ v.ok
                 THEN [ok |-> TRUE,
                       loc |-> [l EXCEPT !.x = <<i.val>>, !.y = <<v.val>>]]
                 ELSE [ok |-> FALSE, loc |-> l]
          [] conv = "status" ->
                 [ok |-> StatusAccepted(line), loc |-> [l EXCEPT !.ret = line]]
          [] conv = "table_x" ->
                 [ok |-> a.ok, loc |-> [l EXCEPT !.x = a.array]]
          [] OTHER ->
                 [ok |-> a.ok, loc |-> [l EXCEPT !.y = a.array]]

\* ------------------------------------------------------- the instrument
\* What a command line sets on the instrument: the source function and the
\* output state of the channel it names.
Apply(st, cmd) ==
    IF cmd.f = "assign" /\ cmd.obj \in DOMAIN st
    THEN IF cmd.attr = "source.func"
         THEN [st EXCEPT ![cmd.obj].func = cmd.int]
         ELSE IF cmd.attr = "source.output"
         THEN [st EXCEPT ![cmd.obj].output = cmd.int]
         ELSE st
    ELSE st

\* ------------------------------------------------------------------ state
VARIABLES
    listed,     \* what list_resources returned
    returned,   \* what get_VISA_resources returned
    resPc,      \* "start" before get_VISA_resources has run, "done" after
    instr,      \* Keithley2600VISADriver._instr: "handle" or "None"
    session,    \* the VISA session behind the handle: "open" or "closed"
    pend,       \* instrument: queries received and not yet answered
    outq,       \* instrument: reply lines ready to be read, oldest first
    smus,       \* instrument: source function and output state per channel
    pc,         \* per caller: the step of its call it is at, 0 when in none
    call,       \* per caller: the method it called last, with its arguments
    loc,        \* per caller: the locals of the call (ret, x, y)
    out,        \* per caller: how its last call ended and what it returned
    trace,      \* per caller: what its call has done on the transport so far
    reads,      \* per caller: the query its call wrote last, the reply it read
    calls,      \* per caller: the calls it has started
    timeouts,   \* the reads that have timed out
    locking,    \* whether the callers wrap each call in the Controller's lock
    lock,       \* the caller that holds the lock, or "free"
    emitted,    \* the data records emitted on dte_signal
    plug        \* per plugin: its type setting, unit, functions, value, phase

resVars == <<listed, returned, resPc>>

drvVars ==
    <<instr, session, pend, outq, smus, pc, call, loc, out, trace, reads,
      calls, timeouts, locking, lock, emitted>>

plugVars == <<plug>>

vars == <<resVars, drvVars, plugVars>>

\* Power-on state of a channel: voltage source, output off.
PowerOn == [func |-> 1, output |-> 0]

NoCall == [op |-> "none", late |-> FALSE, was |-> PowerOn]

NoLoc == [ret |-> <<>>, x |-> <<>>, y |-> <<>>]

NoOut == [st |-> "none", err |-> "", x |-> <<>>, y |-> <<>>]

NoTag == [by |-> "nobody"]

NoRead == [want |-> NoTag, got |-> NoTag]

\* DAQ_Move_Keithley2600 after ini_attributes: no functions selected, the
\* class's unit "V", no value read yet.
NoPlug ==
    [type |-> "", unit |-> "V", meas |-> "None", move |-> "None",
     value |-> <<0, 0>>, phase |-> "new"]

\* The driver before any call, with the instrument's channels as given.
DrvInit(channels, withLock) ==
    /\ instr = "handle"
    /\ session = "open"
    /\ pend = <<>>
    /\ outq = <<>>
    /\ smus = channels
    /\ pc = [c \in Callers |-> 0]
    /\ call = [c \in Callers |-> NoCall]
    /\ loc = [c \in Callers |-> NoLoc]
    /\ out = [c \in Callers |-> NoOut]
    /\ trace = [c \in Callers |-> <<>>]
    /\ reads = [c \in Callers |-> NoRead]
    /\ calls = [c \in Callers |-> 0]
    /\ timeouts = 0
    /\ locking = withLock
    /\ lock = "free"
    /\ emitted = <<>>
    /\ plug = [c \in Callers |-> NoPlug]

ResIdle == listed = <<>> /\ returned = <<>> /\ resPc = "done"

\* ------------------------------------------------------------------ steps
Cur(c) == Program(call[c])[pc[c]]

At(c, kind) == pc[c] > 0 /\ Cur(c).k = kind

\* The query a reply answers: who wrote it, in which call, at which step.
Tag(c) == [by |-> c, n |-> calls[c], at |-> pc[c]]

Released(c) == IF lock = c THEN "free" ELSE lock

\* A slip of Raise: the failing step is left to be taken again.
RaiseAndRetry(c, err) ==
    /\ pc' = pc
    /\ out' = [out EXCEPT ![c] = [st |-> "raised", err |-> err,
                                  x |-> <<>>, y |-> <<>>]]
    /\ loc' = loc
    /\ lock' = lock

\* An exception leaves the method at once: nothing is returned.
Raise(c, err) ==
    /\ pc' = [pc EXCEPT ![c] = 0]
    /\ out' = [out EXCEPT ![c] = [st |-> "raised", err |-> err,
                                  x |-> <<>>, y |-> <<>>]]
    /\ loc' = [loc EXCEPT ![c] = NoLoc]
    /\ lock' = Released(c)

\* The step is done, with locals l: on to the next one, or the return.
Advance(c, l) ==
    IF pc[c] >= Len(Program(call[c]))
    THEN /\ pc' = [pc EXCEPT ![c] = 0]
         /\ out' = [out EXCEPT ![c] =
                [st |-> "returned", err |-> "",
                 x |-> IF call[c].op \in ValueOps THEN l.x ELSE <<>>,
                 y |-> IF call[c].op \in ValueOps THEN l.y ELSE <<>>]]
         /\ loc' = [loc EXCEPT ![c] = NoLoc]
         /\ lock' = Released(c)
    ELSE /\ pc' = [pc EXCEPT ![c] = pc[c] + 1]
         /\ loc' = [loc EXCEPT ![c] = l]
         /\ UNCHANGED <<out, lock>>

\* A caller enters a method: with locking, only once it holds the lock.
Enter(c, cr) ==
    /\ pc[c] = 0
    /\ locking => lock = "free"
    /\ call' = [call EXCEPT ![c] = cr]
    /\ pc' = [pc EXCEPT ![c] = 1]
    /\ calls' = [calls EXCEPT ![c] = calls[c] + 1]
    /\ trace' = [trace EXCEPT ![c] = <<>>]
    /\ out' = [out EXCEPT ![c] = NoOut]
    /\ loc' = [loc EXCEPT ![c] = NoLoc]
    /\ reads' = [reads EXCEPT ![c] = NoRead]
    /\ lock' = IF locking THEN c ELSE lock
    /\ UNCHANGED <<instr, session, pend, outq, smus, timeouts, locking, emitted>>
    /\ UNCHANGED <<resVars, plugVars>>

\* A call of a driver method, of at most MaxCalls in a run.
Begin(c, cr) == calls[c] < MaxCalls /\ Enter(c, cr)

\* self._instr.write(cmd)
WriteStep(c) ==
    /\ At(c, "write")
    /\ LET cmd == Cur(c).cmd
           ev == [k |-> "write", cmd |-> cmd]
       IN  IF instr = "None"
           THEN /\ Raise(c, "AttributeError")
                /\ UNCHANGED <<trace, pend, smus, reads>>
           ELSE IF session = "closed"
           THEN /\ Raise(c, "InvalidSession")
                /\ trace' = [trace EXCEPT ![c] = Append(@, ev)]
                /\ UNCHANGED <<pend, smus, reads>>
           ELSE /\ trace' = [trace EXCEPT ![c] = Append(@, ev)]
                /\ pend' = IF IsQuery(cmd) THEN Append(pend, Tag(c)) ELSE pend
                /\ smus' = Apply(smus, cmd)
                /\ reads' = IF IsQuery(cmd)
                            THEN [reads EXCEPT ![c] = [want |-> Tag(c), got |-> NoTag]]
                            ELSE reads
                /\ Advance(c, loc[c])
    /\ UNCHANGED <<instr, session, outq, call, calls, timeouts, locking, emitted>>
    /\ UNCHANGED <<resVars, plugVars>>

\* self._instr.read(): the oldest line the instrument has ready, whatever
\* query it answers, one of `lines`, and its conversion.
ReadReply(c, lines) ==
    /\ At(c, "read")
    /\ instr = "None" \/ session = "closed" \/ outq # <<>>
    /\ IF instr = "None"
       THEN /\ Raise(c, "AttributeError")
            /\ UNCHANGED <<trace, outq, reads>>
       ELSE IF session = "closed"
       THEN /\ Raise(c, "InvalidSession")
            /\ trace' = [trace EXCEPT ![c] = Append(@, [k |-> "read"])]
            /\ UNCHANGED <<outq, reads>>
       ELSE /\ trace' = [trace EXCEPT ![c] = Append(@, [k |-> "read"])]
            /\ outq' = Tail(outq)
            /\ reads' = [reads EXCEPT ![c].got = Head(outq)]
            /\ \E line \in lines :
                  LET r == Convert(Cur(c).conv, line, loc[c])
                  IN  IF r.ok THEN Advance(c, r.loc) ELSE Raise(c, "ValueError")
    /\ UNCHANGED <<instr, session, pend, smus, call, calls, timeouts, locking, emitted>>
    /\ UNCHANGED <<resVars, plugVars>>

\* self._instr.read() with no line ready within the transport's timeout.
ReadTimeout(c) ==
    /\ At(c, "read")
    /\ instr # "None" /\ session = "open"
    /\ outq = <<>>
    /\ timeouts < MaxTimeouts
    /\ timeouts' = timeouts + 1
    /\ trace' = [trace EXCEPT ![c] = Append(@, [k |-> "read"])]
    /\ Raise(c, "VisaIOError")
    /\ UNCHANGED <<instr, session, pend, outq, smus, call, reads, calls, locking, emitted>>
    /\ UNCHANGED <<resVars, plugVars>>

\* self.dte_signal.emit(DataToExport(...)) of _emit_xy_data
EmitStep(c) ==
    /\ At(c, "emit")
    /\ emitted' = Append(emitted, [by |-> c, n |-> calls[c],
                                    x |-> loc[c].x, y |-> loc[c].y])
    /\ Advance(c, loc[c])
    /\ UNCHANGED <<instr, session, pend, outq, smus, call, trace, reads, calls, timeouts, locking>>
    /\ UNCHANGED <<resVars, plugVars>>

\* self._instr.close()
CloseStep(c) ==
    /\ At(c, "close")
    /\ IF instr = "None"
       THEN /\ Raise(c, "AttributeError")
            /\ UNCHANGED <<session, trace>>
       ELSE /\ session' = "closed"
            /\ trace' = [trace EXCEPT ![c] = Append(@, [k |-> "close"])]
            /\ Advance(c, loc[c])
    /\ UNCHANGED <<instr, pend, outq, smus, call, reads, calls, timeouts, locking, emitted>>
    /\ UNCHANGED <<resVars, plugVars>>

\* self._instr = None
DropStep(c) ==
    /\ At(c, "drop")
    /\ instr' = "None"
    /\ Advance(c, loc[c])
    /\ UNCHANGED <<session, pend, outq, smus, call, trace, reads, calls, timeouts, locking, emitted>>
    /\ UNCHANGED <<resVars, plugVars>>

\* What a step of the plugin itself leaves alone.
PlugStep ==
    /\ UNCHANGED <<pend, outq, smus, call, trace, reads, calls, timeouts, locking, emitted>>
    /\ UNCHANGED resVars

\* self.controller = Keithley2600VISADriver(resource_name)
OpenStep(c) ==
    /\ At(c, "open")
    /\ instr' = "handle"
    /\ session' = "open"
    /\ Advance(c, loc[c])
    /\ PlugStep
    /\ UNCHANGED plug

\* self.controller = controller
AttachStep(c) ==
    /\ At(c, "attach")
    /\ Advance(c, loc[c])
    /\ PlugStep
    /\ UNCHANGED <<instr, session, plug>>

\* The framework sets self.settings["type"] before commit_settings runs.
SetTypeStep(c) ==
    /\ At(c, "settype")
    /\ plug' = [plug EXCEPT ![c].type = Cur(c).type]
    /\ Advance(c, loc[c])
    /\ PlugStep
    /\ UNCHANGED <<instr, session>>

\* self.axis_unit = ..., self._meas_function = ..., self._move_function = ...
SelectStep(c) ==
    /\ At(c, "select")
    /\ plug' = [plug EXCEPT ![c].unit = Cur(c).unit,
                            ![c].meas = Cur(c).meas,
                            ![c].move = Cur(c).move]
    /\ Advance(c, loc[c])
    /\ PlugStep
    /\ UNCHANGED <<instr, session>>

\* raise ValueError(f"Unknown source type: {source_type}")
RaiseStep(c) ==
    /\ At(c, "raise")
    /\ Raise(c, Cur(c).err)
    /\ PlugStep
    /\ UNCHANGED <<instr, session, plug>>

\* self.current_value = self._meas_function(), with the value just read
StoreStep(c) ==
    /\ At(c, "store")
    /\ plug' = [plug EXCEPT ![c].value = loc[c].x[1]]
    /\ Advance(c, loc[c])
    /\ PlugStep
    /\ UNCHANGED <<instr, session>>

\* The hook returns: ini_stage leaves the plugin initialized, close closed.
ReturnStep(c) ==
    /\ At(c, "return")
    /\ plug' = [plug EXCEPT ![c].phase =
           IF call[c].op = "ini_stage" THEN "inited"
           ELSE IF call[c].op = "plugin_close" THEN "closed"
           ELSE @]
    /\ Advance(c, loc[c])
    /\ PlugStep
    /\ UNCHANGED <<instr, session>>

\* The instrument answers the oldest query it has not answered yet.
Respond ==
    /\ pend # <<>>
    /\ outq' = Append(outq, Head(pend))
    /\ pend' = Tail(pend)
    /\ UNCHANGED <<instr, session, smus, pc, call, loc, out, trace, reads, calls, timeouts, locking, lock, emitted>>
    /\ UNCHANGED <<resVars, plugVars>>

\* ------------------------------------------------------------------ calls
\* What a call finds when it is entered: whether the Controller has lost its
\* handle; the state of its channel goes into the call's record as `was`.
Late == instr = "None"

\* A caller calls a method of the Channel of one of `chs`.
CallSweep(c, chs, startvs, ns) ==
    \E ch \in chs, startv \in startvs, stopv \in StopVs,
       stime \in STimes, npoints \in ns :
        Begin(c, [op |-> "sweepV_measureI", late |-> Late, was |-> smus[SmuOf(ch)],
                  smu |-> SmuOf(ch), startv |-> startv,
                  stopv |-> stopv, stime |-> stime, npoints |-> npoints])

CallSourceV(c, chs) ==
    \E ch \in chs, v \in Setpoints :
        Begin(c, [op |-> "sourceV", late |-> Late, was |-> smus[SmuOf(ch)],
                  smu |-> SmuOf(ch), setpoint |-> v])

CallSourceI(c, chs) ==
    \E ch \in chs, i \in Setpoints :
        Begin(c, [op |-> "sourceI", late |-> Late, was |-> smus[SmuOf(ch)],
                  smu |-> SmuOf(ch), setpoint |-> i])

CallOff(c, chs) ==
    \E ch \in chs, highz \in BOOLEAN :
        Begin(c, [op |-> "off", late |-> Late, was |-> smus[SmuOf(ch)],
                  smu |-> SmuOf(ch), highz |-> highz])

CallMeasure(c, chs) ==
    \E ch \in chs,
       op \in {"measureI", "measureV", "measureIV", "Ilimit", "Vlimit"} :
        Begin(c, [op |-> op, late |-> Late, was |-> smus[SmuOf(ch)],
                  smu |-> SmuOf(ch)])

CallClose(c) == Begin(c, [op |-> "close", late |-> Late, was |-> PowerOn])

CallGrab(c) ==
    \E npoints \in 3..MaxPoints, idle_pol_on \in BOOLEAN :
        Begin(c, [op |-> "grab_data", late |-> Late, was |-> smus[SmuOf(<<"A">>)],
                  smu |-> SmuOf(<<"A">>),
                  settings |-> [startv |-> <<0, 0>>, stopv |-> <<1, 0>>,
                                stime |-> <<1, -3>>, npoints |-> npoints,
                                ilimit |-> <<1, -1>>, idle_pol_on |-> idle_pol_on,
                                idle_pol_v |-> <<-25, -1>>]])

\* The Channel a plugin creates for itself.
ChannelOf(c) == IF c = "master" THEN <<"A">> ELSE <<"B">>

\* A hook of the actuator plugin, of at most MaxHooks in a run.
Hook(c, cr) == calls[c] < MaxHooks /\ Enter(c, cr)

Inited(c) == plug[c].phase = "inited"

\* ini_stage: the master creates the Controller, a slave receives the
\* master's.
CallIniStage(c) ==
    /\ plug[c].phase = "new"
    /\ c = "slave" => Inited("master")
    /\ \E autorng \in BOOLEAN :
          Hook(c, [op |-> "ini_stage", late |-> Late, was |-> smus[SmuOf(ChannelOf(c))],
                  smu |-> SmuOf(ChannelOf(c)),
                   master |-> (c = "master"), autorange |-> autorng,
                   type |-> plug[c].type, prev |-> plug[c]])

CallCommitType(c, types) ==
    /\ Inited(c)
    /\ \E type \in types :
          Hook(c, [op |-> "commit_settings", late |-> Late, was |-> smus[SmuOf(ChannelOf(c))],
                  smu |-> SmuOf(ChannelOf(c)),
                   name |-> "type", type |-> type, prev |-> plug[c]])

CallCommitOther(c) ==
    /\ Inited(c)
    /\ Hook(c, [op |-> "commit_settings", late |-> Late, was |-> smus[SmuOf(ChannelOf(c))],
                  smu |-> SmuOf(ChannelOf(c)),
                 name |-> "autorange", type |-> plug[c].type, prev |-> plug[c]])

CallGetValue(c) ==
    /\ Inited(c)
    /\ Hook(c, [op |-> "get_actuator_value", late |-> Late, was |-> smus[SmuOf(ChannelOf(c))],
                  smu |-> SmuOf(ChannelOf(c)),
                 fn |-> plug[c].meas])

CallMoveAbs(c) ==
    /\ Inited(c)
    /\ \E value \in Setpoints :
          Hook(c, [op |-> "move_abs", late |-> Late, was |-> smus[SmuOf(ChannelOf(c))],
                  smu |-> SmuOf(ChannelOf(c)),
                   fn |-> plug[c].move, value |-> value])

CallMoveRel(c) ==
    /\ Inited(c)
    /\ Hook(c, [op |-> "move_rel", late |-> Late, was |-> smus[SmuOf(ChannelOf(c))],
                  smu |-> SmuOf(ChannelOf(c)),
                 fn |-> plug[c].move, position |-> plug[c].value,
                 value |-> <<-25, -1>>])

CallStop(c) ==
    /\ Inited(c)
    /\ Hook(c, [op |-> "stop_motion", late |-> Late, was |-> smus[SmuOf(ChannelOf(c))],
                  smu |-> SmuOf(ChannelOf(c))])

CallPluginClose(c) ==
    /\ Inited(c)
    /\ Hook(c, [op |-> "plugin_close", late |-> Late, was |-> PowerOn,
                 master |-> (c = "master")])

\* --------------------------------------------------------- specifications
\* One caller sweeps, again and again.
InitSweep == DrvInit([s \in SmuNames |-> PowerOn], FALSE) /\ ResIdle

NextSweep ==
    \/ CallSweep("master", ChannelNames, StartVs, NPoints)
    \/ WriteStep("master")
    \/ ReadReply("master", Lines)
    \/ ReadTimeout("master")
    \/ Respond

SpecSweep == InitSweep /\ [][NextSweep]_vars

\* get_VISA_resources on every list of distinct addresses.
Listings ==
    {l \in UNION {[1..n -> Addresses] : n \in 0..MaxRes} :
        \A i, j \in 1..Len(l) : l[i] = l[j] => i = j}

InitRes ==
    /\ listed \in Listings
    /\ returned = <<>>
    /\ resPc = "start"
    /\ DrvInit([s \in SmuNames |-> PowerOn], FALSE)

ListResources ==
    /\ resPc = "start"
    /\ returned' = get_VISA_resources(listed)
    /\ resPc' = "done"
    /\ UNCHANGED <<listed, drvVars, plugVars>>

NextRes == ListResources

SpecRes == InitRes /\ [][NextRes]_vars

\* One caller sources and switches off, from any state of the channels.
InitSource ==
    /\ \E channels \in [SmuNames -> [func : {0, 1}, output : {0, 1, 2}]] :
           DrvInit(channels, FALSE)
    /\ ResIdle

NextSource ==
    \/ CallSourceV("master", ChannelNames)
    \/ CallSourceI("master", ChannelNames)
    \/ CallOff("master", ChannelNames)
    \/ WriteStep("master")

SpecSource == InitSource /\ [][NextSource]_vars

\* One caller measures, switches off and closes the Controller.
NextClose ==
    \/ CallClose("master")
    \/ CallMeasure("master", {<<"A">>})
    \/ CallOff("master", {<<"A">>})
    \/ WriteStep("master")
    \/ ReadReply("master", FewLines)
    \/ ReadTimeout("master")
    \/ CloseStep("master")
    \/ DropStep("master")
    \/ Respond

SpecClose == InitSweep /\ [][NextClose]_vars

\* The sweep viewer acquires, again and again.
NextGrab ==
    \/ CallGrab("master")
    \/ WriteStep("master")
    \/ ReadReply("master", FewLines)
    \/ ReadTimeout("master")
    \/ EmitStep("master")
    \/ Respond

SpecGrab == InitSweep /\ [][NextGrab]_vars

\* Two callers query through one Controller, with or without its lock.
InitShared ==
    /\ \E withLock \in BOOLEAN : DrvInit([s \in SmuNames |-> PowerOn], withLock)
    /\ ResIdle

NextShared ==
    \/ \E c \in Callers :
          \/ CallMeasure(c, {ChannelOf(c)})
          \/ CallSweep(c, {ChannelOf(c)}, {<<0, 0>>}, {3})
          \/ WriteStep(c)
          \/ ReadReply(c, FewLines)
          \/ ReadTimeout(c)
    \/ Respond

SpecShared == InitShared /\ [][NextShared]_vars

\* The plugins before ini_stage: no Controller yet, the "type" setting as the
\* settings tree holds it.
InitPlugins ==
    /\ instr = "None"
    /\ session = "closed"
    /\ pend = <<>>
    /\ outq = <<>>
    /\ smus = [s \in SmuNames |-> PowerOn]
    /\ pc = [c \in Callers |-> 0]
    /\ call = [c \in Callers |-> NoCall]
    /\ loc = [c \in Callers |-> NoLoc]
    /\ out = [c \in Callers |-> NoOut]
    /\ trace = [c \in Callers |-> <<>>]
    /\ reads = [c \in Callers |-> NoRead]
    /\ calls = [c \in Callers |-> 0]
    /\ timeouts = 0
    /\ locking = FALSE
    /\ lock = "free"
    /\ emitted = <<>>
    /\ \E type \in SourceTypes :
          plug = [c \in Callers |-> [NoPlug EXCEPT !.type = type]]
    /\ ResIdle

\* One actuator plugin, master of its Controller: initialized, then its type
\* changed, its value read, moved and stopped in any order.
NextActuator ==
    \/ CallIniStage("master")
    \/ CallCommitType("master", SourceTypes)
    \/ CallCommitOther("master")
    \/ CallGetValue("master")
    \/ CallMoveAbs("master")
    \/ CallMoveRel("master")
    \/ CallStop("master")
    \/ (Inited("master") /\ CallOff("master", {ChannelOf("master")}))
    \/ OpenStep("master")
    \/ SetTypeStep("master")
    \/ SelectStep("master")
    \/ RaiseStep("master")
    \/ StoreStep("master")
    \/ ReturnStep("master")
    \/ WriteStep("master")
    \/ ReadReply("master", FewLines)
    \/ ReadTimeout("master")
    \/ Respond

SpecActuator == InitPlugins /\ [][NextActuator]_vars

\* One caller queries, again and again: measurements, limits and sweeps.
NextQuery ==
    \/ CallMeasure("master", ChannelNames)
    \/ CallSweep("master", {<<"A">>}, {<<0, 0>>}, {3})
    \/ WriteStep("master")
    \/ ReadReply("master", FewLines)
    \/ ReadTimeout("master")
    \/ Respond

SpecQuery == InitSweep /\ [][NextQuery]_vars

\* A master plugin and a slave plugin on one Controller: each is initialized,
\* moves, reads its value and is closed, in any order; the instrument
\* answers every query before the read gives up.
NextLifecycle ==
    \/ \E c \in Callers :
          \/ CallIniStage(c)
          \/ CallPluginClose(c)
          \/ CallMoveAbs(c)
          \/ CallGetValue(c)
          \/ OpenStep(c)
          \/ AttachStep(c)
          \/ SelectStep(c)
          \/ RaiseStep(c)
          \/ StoreStep(c)
          \/ ReturnStep(c)
          \/ WriteStep(c)
          \/ ReadReply(c, FewLines)
          \/ CloseStep(c)
          \/ DropStep(c)
    \/ Respond

SpecLifecycle == InitPlugins /\ [][NextLifecycle]_vars

\* ----------------------------------------------------------------- claims
IsPrefix(s, t) == Len(s) <= Len(t) /\ SubSeq(t, 1, Len(s)) = s

Sweeping(c) == call[c].op = "sweepV_measureI"

\* What the transport is to see of one sweep, written out command by command.
SweepSequence(cr) ==
    << [k |-> "write",
        cmd |-> [f |-> "SweepVLinMeasureI", obj |-> cr.smu,
                 startv |-> Fmt6e(cr.startv), stopv |-> Fmt6e(cr.stopv),
                 stime |-> Fmt6e(cr.stime), npoints |-> IntToStr(cr.npoints)]],
       [k |-> "write",
        cmd |-> [f |-> "print", obj |-> Upper(cr.smu),
                 attr |-> "status.measurement.buffer_available"]],
       [k |-> "read"],
       [k |-> "write",
        cmd |-> [f |-> "printbuffer", first |-> 1, last |-> IntToStr(cr.npoints),
                 obj |-> cr.smu, buf |-> "nvbuffer1.sourcevalues"]],
       [k |-> "read"],
       [k |-> "write",
        cmd |-> [f |-> "printbuffer", first |-> 1, last |-> IntToStr(cr.npoints),
                 obj |-> cr.smu, buf |-> "nvbuffer1.readings"]],
       [k |-> "read"] >>

\* C1: what the transport sees of a sweepV_measureI call is, at every moment,
\* a prefix of: trigger, status query, read, source-value dump over
\* 1..npoints, read, readings dump over 1..npoints, read.  The call goes past
\* the status read only with an accepted status, a call that returns has done
\* the whole sequence, and sweepV_measureI(0, 1, 1e-3, 101) sends the trigger
\* with 0.000000e+00, 1.000000e+00, 1.000000e-03 and 101.
C1_SweepSequence ==
    \A c \in Callers :
        Sweeping(c) =>
            /\ IsPrefix(trace[c], SweepSequence(call[c]))
            /\ pc[c] > 3 => StatusAccepted(loc[c].ret)
            /\ out[c].st = "returned" => trace[c] = SweepSequence(call[c])
            /\ ( /\ trace[c] # <<>>
                 /\ call[c].startv = <<0, 0>>
                 /\ call[c].npoints = 101 )
               => /\ trace[c][1].cmd.startv = [neg |-> FALSE, digits |-> 0, exp |-> 0]
                  /\ trace[c][1].cmd.stopv = [neg |-> FALSE, digits |-> 1000000, exp |-> 0]
                  /\ trace[c][1].cmd.stime = [neg |-> FALSE, digits |-> 1000000, exp |-> -3]
                  /\ trace[c][1].cmd.npoints = <<"1", "0", "1">>

\* C1 witness: a sweep has returned after its seven steps on the transport.
C1_SweepReturned ==
    \E c \in Callers :
        Sweeping(c) /\ out[c].st = "returned" /\ Len(trace[c]) = 7

\* C2: a sweepV_measureI call goes past its status check only when the status
\* reply is a number equal to exactly 2.
C2_StatusExactlyTwo ==
    \A c \in Callers :
        (Sweeping(c) /\ pc[c] > 3) =>
            /\ ParseFloat(loc[c].ret).ok
            /\ ParseFloat(loc[c].ret).val = <<2, 0>>

\* C3: a sweepV_measureI call that returns gives two sequences of exactly
\* npoints elements each.
C3_ExactlyNPoints ==
    \A c \in Callers :
        (Sweeping(c) /\ out[c].st = "returned") =>
            /\ Len(out[c].x) = call[c].npoints
            /\ Len(out[c].y) = call[c].npoints

WritesOf(t) == SelectSeq(t, LAMBDA e : e.k = "write")

\* C4: a sweepV_measureI call that has failed is over and has returned neither
\* sequence; no command is written twice in one call; and once a call has
\* failed, nothing more is done on the transport until the next call.
C4_FailureIsFinal ==
    /\ [](\A c \in Callers :
            Sweeping(c) =>
              /\ out[c].st = "raised" =>
                    /\ pc[c] = 0
                    /\ out[c].x = <<>> /\ out[c].y = <<>>
                    /\ loc[c] = NoLoc
              /\ \A i, j \in 1..Len(WritesOf(trace[c])) :
                    WritesOf(trace[c])[i] = WritesOf(trace[c])[j] => i = j)
    /\ [][\A c \in Callers :
            (Sweeping(c) /\ out[c].st = "raised" /\ calls'[c] = calls[c])
                => (trace'[c] = trace[c] /\ out'[c] = out[c])]_vars

\* C4 witness: a sweep has failed at its last read, after the source values
\* had been read and parsed.
C4_FailedAfterFirstDump ==
    \E c \in Callers :
        Sweeping(c) /\ out[c].st = "raised" /\ Len(trace[c]) = 7

\* C5: with the Controller's lock around every call, each read returns the
\* reply to the query its own call wrote last, and at most one query is in
\* flight (written, its reply not read yet).
C5_LockedPairing ==
    locking =>
        /\ \A c \in Callers : reads[c].got \in {NoTag, reads[c].want}
        /\ Len(pend) + Len(outq) <= 1

\* C5 witness: without the lock and with no read timed out, a caller has read
\* the reply to a query the other caller wrote.
C5_CrossTalk ==
    /\ ~locking
    /\ timeouts = 0
    /\ \E c \in Callers :
          /\ reads[c].got # NoTag
          /\ reads[c].got.by # c

\* What the transport is to see of sourceV or sourceI, command by command.
SourceSequence(cr) ==
    << [k |-> "write",
        cmd |-> [f |-> "assign", obj |-> cr.smu, attr |-> "source.func",
                 int |-> IF cr.op = "sourceV" THEN 1 ELSE 0]],
       [k |-> "write",
        cmd |-> [f |-> "assign", obj |-> cr.smu, attr |-> "source.output",
                 int |-> 1]],
       [k |-> "write",
        cmd |-> [f |-> "assign", obj |-> cr.smu,
                 attr |-> IF cr.op = "sourceV" THEN "source.levelv"
                          ELSE "source.leveli",
                 num |-> Fmt6e(cr.setpoint)]] >>

\* C6: what the transport sees of a sourceV or sourceI call is, at every
\* moment, a prefix of: select the source function (1 for voltage, 0 for
\* current), enable the output, set the level to the formatted setpoint; a
\* call that returns has written all three and read nothing, and the setpoint
\* -2.5 is written as -2.500000e+00.
C6_SourceSequence ==
    \A c \in Callers :
        call[c].op \in {"sourceV", "sourceI"} =>
            /\ IsPrefix(trace[c], SourceSequence(call[c]))
            /\ out[c].st = "returned" => trace[c] = SourceSequence(call[c])
            /\ pc[c] > 0 => Len(trace[c]) = pc[c] - 1
            /\ (Len(trace[c]) = 3 /\ call[c].setpoint = <<-25, -1>>)
                  => trace[c][3].cmd.num = [neg |-> TRUE, digits |-> 2500000, exp |-> 0]

\* C6 witness: a sourceI call has returned after its three writes.
C6_SourceIReturned ==
    \E c \in Callers :
        call[c].op = "sourceI" /\ out[c].st = "returned" /\ Len(trace[c]) = 3

\* The output state of a channel, from what the instrument holds.
ChannelState(ch) ==
    IF ch.output = 1 THEN (IF ch.func = 1 THEN "ON_V" ELSE "ON_A") ELSE "OFF"

\* C7: when a sourceV call has returned its channel is ON in mode V, when a
\* sourceI call has returned it is ON in mode A, when an off call has returned
\* it is OFF, whatever the state of the channel was before the call.
C7_OutputStateMachine ==
    \A c \in Callers :
        (pc[c] = 0 /\ out[c].st = "returned") =>
            /\ call[c].op = "sourceV" => ChannelState(smus[call[c].smu]) = "ON_V"
            /\ call[c].op = "sourceI" => ChannelState(smus[call[c].smu]) = "ON_A"
            /\ call[c].op = "off" => ChannelState(smus[call[c].smu]) = "OFF"

\* C7 witness: sourceI has returned on a channel that was ON in mode V when it
\* was called, and the channel is now ON in mode A.
C7_ModeSwitched ==
    \E c \in Callers :
        /\ call[c].op = "sourceI" /\ pc[c] = 0 /\ out[c].st = "returned"
        /\ ChannelState(call[c].was) = "ON_V"
        /\ ChannelState(smus[call[c].smu]) = "ON_A"

\* C8: a close that returns has closed the session and left the Controller
\* without a handle; every call entered after that, a second close or a
\* channel method, does nothing on the transport and fails with an error at
\* its first step.
C8_CloseNotIdempotent ==
    /\ instr = "None" => session = "closed"
    /\ \A c \in Callers :
          /\ (call[c].op = "close" /\ out[c].st = "returned") =>
                /\ instr = "None"
                /\ trace[c] = <<[k |-> "close"]>>
          /\ (call[c].op # "none" /\ call[c].late) =>
                /\ trace[c] = <<>>
                /\ pc[c] <= 1
                /\ pc[c] = 0 => (out[c].st = "raised" /\ out[c].err = "AttributeError")

\* C8 witness: a second close, called when the handle was gone, has failed.
C8_SecondCloseFailed ==
    \E c \in Callers :
        call[c].op = "close" /\ call[c].late /\ out[c].st = "raised"

\* The records a caller's acquisitions have emitted, and those of its last one.
RecordsOf(c) == SelectSeq(emitted, LAMBDA r : r.by = c)

RecordsOfCall(c) == SelectSeq(emitted, LAMBDA r : r.by = c /\ r.n = calls[c])

\* C9: whenever no grab_data call is running, the records emitted are as many
\* as the grab_data calls made.
C9_OneRecordPerCall ==
    \A c \in Callers :
        (call[c].op = "grab_data" /\ pc[c] = 0) => Len(RecordsOf(c)) = calls[c]

\* C9 as amended: a grab_data call emits at most one record, exactly one when
\* it returns and none when it fails in its sweep; the records never outnumber
\* the calls.
C9_OneRecordPerSuccess ==
    \A c \in Callers :
        call[c].op = "grab_data" =>
            /\ Len(RecordsOf(c)) <= calls[c]
            /\ Len(RecordsOfCall(c)) <= 1
            /\ out[c].st = "returned" => Len(RecordsOfCall(c)) = 1
            /\ out[c].st = "raised" => Len(RecordsOfCall(c)) = 0
            /\ Len(RecordsOfCall(c)) = 1 <=> (pc[c] > 9 \/ out[c].st = "returned")

\* C9 witness: of two grab_data calls one has emitted its record and the
\* other has failed and emitted none.
C9_FailedCallNoRecord ==
    \E c \in Callers :
        /\ call[c].op = "grab_data" /\ calls[c] = 2
        /\ out[c].st = "raised"
        /\ Len(RecordsOf(c)) = 1
        /\ Len(RecordsOfCall(c)) = 0

IsUSB(a) == StartsWith(a, USB0)

Count(l, a) == Cardinality({i \in 1..Len(l) : l[i] = a})

IsPermutation(l, m) ==
    Len(l) = Len(m) /\ \A a \in Addresses : Count(l, a) = Count(m, a)

\* C10: get_VISA_resources returns a permutation of the list in which every
\* USB address precedes every other address, the others in their order.
C10_EveryUSBFirst ==
    resPc = "done" =>
        /\ IsPermutation(returned, listed)
        /\ \A i, j \in 1..Len(returned) :
              (IsUSB(returned[i]) /\ ~IsUSB(returned[j])) => i < j
        /\ SelectSeq(returned, LAMBDA a : ~IsUSB(a))
              = SelectSeq(listed, LAMBDA a : ~IsUSB(a))

\* C10 as amended: get_VISA_resources returns a permutation of the list with
\* the first address that begins with USB0 moved to the front and all other
\* addresses, later USB0 ones too, in their order; a list with no such
\* address is returned as it is.
C10_FirstUSBFirst ==
    resPc = "done" =>
        LET hits == {i \in 1..Len(listed) : IsUSB(listed[i])}
            first == listed[Min(hits)]
        IN  /\ IsPermutation(returned, listed)
            /\ hits = {} => returned = listed
            /\ hits # {} =>
                  /\ returned[1] = first
                  /\ SelectSeq(returned, LAMBDA a : a # first)
                        = SelectSeq(listed, LAMBDA a : a # first)

\* C10 witness: the list held two USB0 addresses, and in what was returned
\* the second one comes after an address of another bus.
C10_SecondUSBLeft ==
    /\ resPc = "done"
    /\ \E i, j \in 1..Len(returned) :
          i < j /\ ~IsUSB(returned[i]) /\ IsUSB(returned[j])

\* The hooks that apply the "type" setting.
TypeApplied(c) ==
    \/ call[c].op = "ini_stage"
    \/ call[c].op = "commit_settings" /\ call[c].name = "type"

IsMeasQuery(e) ==
    /\ e.k = "write"
    /\ e.cmd.f = "print"
    /\ e.cmd.attr \in {"measure.v()", "measure.i()"}

MeasQueries(t) == SelectSeq(t, IsMeasQuery)

Selection(p) == <<p.unit, p.meas, p.move>>

\* C11: a hook that applies a "type" setting outside Voltage and Current
\* writes no measurement query, reads nothing, leaves the unit and the two
\* functions as they were and ends with a ValueError; with Voltage it selects
\* V, measureV, sourceV and with Current A, measureI, sourceI, before it
\* writes its one measurement query, the one of the function selected.
C11_SourceType ==
    \A c \in Callers :
        TypeApplied(c) =>
            LET type == call[c].type
                queries == MeasQueries(trace[c])
                want == IF type = "Voltage"
                        THEN [sel |-> <<"V", "measureV", "sourceV">>,
                              attr |-> "measure.v()"]
                        ELSE [sel |-> <<"A", "measureI", "sourceI">>,
                              attr |-> "measure.i()"]
            IN  /\ type \notin {"Voltage", "Current"} =>
                      /\ queries = <<>>
                      /\ \A i \in 1..Len(trace[c]) : trace[c][i].k # "read"
                      /\ Selection(plug[c]) = Selection(call[c].prev)
                      /\ out[c].st # "returned"
                      /\ pc[c] = 0 =>
                             (out[c].st = "raised" /\ out[c].err = "ValueError")
                /\ type \in {"Voltage", "Current"} =>
                      /\ Len(queries) <= 1
                      /\ queries # <<>> =>
                             /\ Selection(plug[c]) = want.sel
                             /\ queries[1].cmd = PrintCmd(call[c].smu, want.attr)
                      /\ out[c].st = "returned" =>
                             (Len(queries) = 1 /\ Selection(plug[c]) = want.sel)
                      /\ Selection(plug[c]) \in {want.sel, Selection(call[c].prev)}

\* C11 witness: with the voltage functions selected, a change of the type to
\* a value outside the list has failed.
C11_UnknownTypeRefused ==
    \E c \in Callers :
        /\ call[c].op = "commit_settings" /\ call[c].type = "Power"
        /\ call[c].prev.meas = "measureV"
        /\ pc[c] = 0 /\ out[c].st = "raised"

\* What the transport is to see of off(highz): one write, the output mode.
OffSequence(smu, mode) ==
    << [k |-> "write",
        cmd |-> [f |-> "assign", obj |-> smu, attr |-> "source.output",
                 int |-> mode]] >>

\* C12: what the transport sees of an off(highz) call is one write and no
\* read, of output mode 2 when highz is true and of output mode 0 when it is
\* false; what it sees of a stop_motion call is the one write of output
\* mode 0.
C12_OffModes ==
    \A c \in Callers :
        /\ call[c].op = "off" =>
              LET seq == OffSequence(call[c].smu, IF call[c].highz THEN 2 ELSE 0)
              IN  /\ IsPrefix(trace[c], seq)
                  /\ out[c].st = "returned" => trace[c] = seq
        /\ call[c].op = "stop_motion" =>
              LET seq == OffSequence(call[c].smu, 0)
              IN  /\ IsPrefix(trace[c], seq)
                  /\ out[c].st = "returned" =>
                        (trace[c] = seq /\ smus[call[c].smu].output = 0)

\* C12 witness: stop_motion has returned on a channel whose output was on,
\* and the output is now off.
C12_StoppedWhileOn ==
    \E c \in Callers :
        /\ call[c].op = "stop_motion" /\ out[c].st = "returned"
        /\ call[c].was.output = 1
        /\ smus[call[c].smu].output = 0

\* What the transport is to see of grab_data: the current limit, the sweep,
\* and with 'keep polarized after scan' the three commands of sourceV.
GrabSequence(cr) ==
    << [k |-> "write",
        cmd |-> [f |-> "assign", obj |-> cr.smu, attr |-> "source.limiti",
                 num |-> Fmt6e(cr.settings.ilimit)]] >>
      \o SweepSequence([smu |-> cr.smu, startv |-> cr.settings.startv,
                        stopv |-> cr.settings.stopv, stime |-> cr.settings.stime,
                        npoints |-> cr.settings.npoints])
      \o (IF cr.settings.idle_pol_on
          THEN SourceSequence([op |-> "sourceV", smu |-> cr.smu,
                               setpoint |-> cr.settings.idle_pol_v])
          ELSE <<>>)

\* C13: what the transport sees of a grab_data call is, at every moment, a
\* prefix of: the limiti write, the sweep's trigger, queries and reads, and,
\* with 'keep polarized after scan' only, the three sourceV commands.  The
\* record is emitted after the sweep's last read and before the first
\* sourceV command; a call that fails has emitted no record and written no
\* sourceV command.
C13_GrabOrder ==
    \A c \in Callers :
        call[c].op = "grab_data" =>
            /\ IsPrefix(trace[c], GrabSequence(call[c]))
            /\ Len(RecordsOfCall(c)) = 1 => Len(trace[c]) >= 8
            /\ Len(trace[c]) > 8 =>
                  (Len(RecordsOfCall(c)) = 1 /\ call[c].settings.idle_pol_on)
            /\ out[c].st = "returned" =>
                  /\ trace[c] = GrabSequence(call[c])
                  /\ Len(RecordsOfCall(c)) = 1
            /\ out[c].st = "raised" =>
                  /\ Len(RecordsOfCall(c)) = 0
                  /\ Len(trace[c]) <= 8

\* C13 witness: a grab_data call with 'keep polarized after scan' has
\* returned after its eleven steps on the transport and its record.
C13_PolarizedAfterRecord ==
    \E c \in Callers :
        /\ call[c].op = "grab_data" /\ call[c].settings.idle_pol_on
        /\ out[c].st = "returned"
        /\ Len(trace[c]) = 11
        /\ Len(RecordsOfCall(c)) = 1

Moving(c) == call[c].op \in {"move_abs", "move_rel"}

\* The setpoint a move passes to its function.
Target(cr) ==
    IF cr.op = "move_abs" THEN cr.value ELSE Add(cr.position, cr.value)

\* C14: while the type setting is Voltage a move_abs or move_rel call uses
\* sourceV and get_actuator_value uses measureV, while it is Current they
\* use sourceI and measureI; what the transport sees of the move is the
\* three commands of that function with the move's target, and what it sees
\* first of get_actuator_value is the query of that function.  Whatever the
\* setting holds, a move uses the source function that goes with the unit
\* and the measure function selected last.
C14_MoveFollowsType ==
    \A c \in Callers :
      /\ Moving(c) =>
            <<plug[c].unit, plug[c].meas, call[c].fn>>
                \in {<<"V", "measureV", "sourceV">>, <<"A", "measureI", "sourceI">>}
      /\ plug[c].type \in {"Voltage", "Current"} =>
            /\ Moving(c) =>
                  LET fn == IF plug[c].type = "Voltage" THEN "sourceV" ELSE "sourceI"
                      seq == SourceSequence([op |-> fn, smu |-> call[c].smu,
                                             setpoint |-> Target(call[c])])
                  IN  /\ call[c].fn = fn
                      /\ IsPrefix(trace[c], seq)
                      /\ out[c].st = "returned" => trace[c] = seq
            /\ call[c].op = "get_actuator_value" =>
                  LET fn == IF plug[c].type = "Voltage" THEN "measureV" ELSE "measureI"
                      attr == IF plug[c].type = "Voltage" THEN "measure.v()"
                              ELSE "measure.i()"
                  IN  /\ call[c].fn = fn
                      /\ trace[c] # <<>> =>
                            trace[c][1] = [k |-> "write",
                                           cmd |-> PrintCmd(call[c].smu, attr)]
                      /\ Len(trace[c]) <= 2

\* C14 witness: a move has returned that used sourceI on a channel which an
\* earlier move had left on as a voltage source.
C14_MovedAfterTypeChange ==
    \E c \in Callers :
        /\ Moving(c) /\ out[c].st = "returned"
        /\ plug[c].type = "Current" /\ call[c].fn = "sourceI"
        /\ call[c].was = [func |-> 1, output |-> 1]
        /\ Len(trace[c]) = 3

\* C15: with one caller, every read returns the reply to the query its own
\* call wrote last.
C15_OwnReply ==
    \A c \in Callers : reads[c].got \in {NoTag, reads[c].want}

\* C15 witness: a query operation has returned a value it read from the
\* reply to a query of an earlier call, whose read had timed out.
C15_StaleReplyReturned ==
    \E c \in Callers :
        /\ call[c].op \in ValueOps /\ out[c].st = "returned"
        /\ timeouts > 0
        /\ reads[c].got # NoTag
        /\ reads[c].got.by = c
        /\ reads[c].got.n < calls[c]

\* A plugin that has been initialized and has not been asked to close.
Usable(c) == Inited(c) /\ call[c].op # "plugin_close"

\* C16: the Controller a usable plugin holds has an open transport.
C16_UsableHasTransport ==
    \A c \in Callers : Usable(c) => (instr = "handle" /\ session = "open")

\* C16 witness: the master has been closed and a move of the slave, still
\* initialized and never closed, has failed for want of a handle.
C16_SlaveLeftWithoutTransport ==
    /\ plug["master"].phase = "closed"
    /\ Usable("slave")
    /\ call["slave"].op = "move_abs"
    /\ out["slave"].st = "raised"
    /\ out["slave"].err = "AttributeError"

====
